---- MODULE Spec2Model ----
(***************************************************************************)
(* A model of LBOAnalysis (src/lbo_model.py): the analysis object with its *)
(* four stored results (debt_structure, operating_model, debt_schedule,    *)
(* returns_analysis) and the five stage methods that fill them.            *)
(*                                                                         *)
(* Numbers.  The program computes in Python floats.  Here every amount is  *)
(* a fixed-point integer: money in hundredths of a million euro, rates     *)
(* and growth factors in basis points (1/Scale), exit multiples in         *)
(* hundredths, MOIC and IRR in tenths (1/RScale).  A product with a rate   *)
(* is rounded toward zero to the money unit, where the float rounds to the *)
(* nearest double.  Sums, differences, min and max are exact in both.      *)
(***************************************************************************)
EXTENDS Integers, Sequences, FiniteSets, TLC

VARIABLES
    purchase_price,     \* self.purchase_price (money)
    sponsor_equity,     \* self.sponsor_equity (money)
    total_debt,         \* self.total_debt = purchase_price - sponsor_equity
    debt_structure,     \* self.debt_structure: tranche name -> terms, {} at first
    operating_model,    \* self.operating_model: year -> record, {} at first
    debt_schedule,      \* self.debt_schedule: year -> tranche -> record, {} at first
    returns_analysis,   \* self.returns_analysis: key -> scenario, {} at first
    called,             \* the method called last
    args,               \* the arguments of that call
    outcome,            \* how that call ended
    result,             \* what it returned: <<>> for None or a raise, <<v>> for v
    calls               \* number of calls made so far

vars == <<purchase_price, sponsor_equity, total_debt, debt_structure, operating_model, debt_schedule,
          returns_analysis, called, args, outcome, result, calls>>

----------------------------------------------------------------------------
(* Fixed-point arithmetic *)

Scale == 100 * 100
RScale == 2 * 5
MScale == 10 * 10

Max(a, b) == IF a >= b THEN a ELSE b
Min(a, b) == IF a <= b THEN a ELSE b

\* a / b rounded toward zero, b > 0
Quot(a, b) == IF a >= 0 THEN a \div b ELSE -((-a) \div b)

\* x * r for a factor r in basis points
Mul(x, r) == Quot(x * r, Scale)

RECURSIVE Pow(_, _)
Pow(b, n) == IF n = 0 THEN 1 ELSE b * Pow(b, n - 1)

\* m ** (1/n) for m > 0 in 1/RScale: the largest r with (r/RScale)^n <= m/RScale
Root(m, n) ==
    CHOOSE r \in 0..(m + RScale) :
        /\ Pow(r, n) <= m * Pow(RScale, n - 1)
        /\ Pow(r + 1, n) > m * Pow(RScale, n - 1)

\* a Python dict or list is falsy when empty
Truthy(d) == DOMAIN d # {}
EmptyDict == <<>>
None == <<>>

RECURSIVE SumSeq(_)
SumSeq(s) == IF Len(s) = 0 THEN 0 ELSE s[1] + SumSeq(Tail(s))

----------------------------------------------------------------------------
(* structure_debt *)

\* the tranches in the dict's insertion order
Tranches == <<"Term Loan A", "Term Loan B", "Revolver", "Subordinated Debt">>
TrancheNames == {Tranches[i] : i \in 1..Len(Tranches)}

\* the terms fixed by structure_debt: rate and amortization in basis points
TrancheTerms ==
    [t \in TrancheNames |->
        CASE t = "Term Loan A" ->
                [rate |-> 450, term |-> 7, amortization |-> 1500, seniority |-> 1]
          [] t = "Term Loan B" ->
                [rate |-> 650, term |-> 8, amortization |-> 100, seniority |-> 2]
          [] t = "Revolver" ->
                [rate |-> 350, term |-> 5, amortization |-> 0, seniority |-> 1]
          [] t = "Subordinated Debt" ->
                [rate |-> 850, term |-> 10, amortization |-> 0, seniority |-> 3]]

\* the dict structure_debt builds from its four amounts
DebtStructureOf(term_loan_a, term_loan_b, revolver, subordinated) ==
    LET amount == [t \in TrancheNames |->
                      CASE t = "Term Loan A" -> term_loan_a
                        [] t = "Term Loan B" -> term_loan_b
                        [] t = "Revolver" -> revolver
                        [] t = "Subordinated Debt" -> subordinated]
    IN [t \in TrancheNames |->
           [amount |-> amount[t],
            rate |-> TrancheTerms[t].rate,
            term |-> TrancheTerms[t].term,
            amortization |-> TrancheTerms[t].amortization,
            seniority |-> TrancheTerms[t].seniority]]

----------------------------------------------------------------------------
(* build_operating_model *)

Years == <<1, 2, 3, 4, 5>>
YearSet == {Years[i] : i \in 1..Len(Years)}

\* the growth rate read one place too far: revenue_growth[i] for revenue_growth[i-1]
GrowthRateNextElement(revenue_growth, year) ==
    IF year - 1 < Len(revenue_growth) THEN revenue_growth[year]
    ELSE revenue_growth[Len(revenue_growth)]

\* line 124, for year >= 2 and a non-empty list: the list is 0-indexed in the
\* program and i = year - 1, so revenue_growth[i-1] is element year - 1 here
GrowthRate(revenue_growth, year) ==
    IF year - 2 < Len(revenue_growth) THEN revenue_growth[year - 1]
    ELSE revenue_growth[Len(revenue_growth)]

RECURSIVE Revenue(_, _, _)
Revenue(base_revenue, revenue_growth, year) ==
    IF year = 1 THEN base_revenue
    ELSE Mul(Revenue(base_revenue, revenue_growth, year - 1),
             Scale + GrowthRate(revenue_growth, year))

\* 0.9 ** (year - 1)
RECURSIVE DebtReductionFactor(_)
DebtReductionFactor(year) ==
    IF year = 1 THEN Scale ELSE Mul(DebtReductionFactor(year - 1), 9000)

\* lines 133-144, given self.debt_structure
InterestExpense(structure, year) ==
    IF Truthy(structure)
    THEN LET total_debt_amount ==
                 SumSeq([i \in 1..Len(Tranches) |-> structure[Tranches[i]].amount])
             weighted_avg_rate ==
                 IF total_debt_amount > 0
                 THEN Quot(SumSeq([i \in 1..Len(Tranches) |->
                                     structure[Tranches[i]].amount
                                       * structure[Tranches[i]].rate]),
                           total_debt_amount)
                 ELSE 0
         IN Mul(Mul(total_debt_amount, weighted_avg_rate), DebtReductionFactor(year))
    ELSE 0

\* one pass of the loop body, lines 120-178
OperatingYear(in, structure, year) ==
    LET revenue == Revenue(in.base_revenue, in.revenue_growth, year)
        ebitda == Mul(revenue, in.ebitda_margin)
        depreciation == Mul(revenue, 300)
        ebit == ebitda - depreciation
        interest_expense == InterestExpense(structure, year)
        ebt == ebit - interest_expense
        taxes == Max(0, Mul(ebt, in.tax_rate))
        net_income == ebt - taxes
        operating_cash_flow == net_income + depreciation
        capex == Mul(revenue, in.capex_rate)
        nwc_change ==
            IF year = 1 THEN 0
            ELSE Mul(revenue - Revenue(in.base_revenue, in.revenue_growth, year - 1),
                     in.nwc_rate)
        free_cash_flow == operating_cash_flow - capex - nwc_change
    IN [revenue |-> revenue, ebitda |-> ebitda, ebit |-> ebit,
        depreciation |-> depreciation, interest_expense |-> interest_expense,
        ebt |-> ebt, taxes |-> taxes, net_income |-> net_income,
        operating_cash_flow |-> operating_cash_flow, capex |-> capex,
        nwc_change |-> nwc_change, free_cash_flow |-> free_cash_flow]

OperatingModelOf(in, structure) ==
    [year \in YearSet |-> OperatingYear(in, structure, year)]

----------------------------------------------------------------------------
(* model_debt_schedule *)

\* lines 216-217
MandatoryPaymentUncapped(beginning_balance, terms) ==
    Mul(terms.amount, terms.amortization)

MandatoryPayment(beginning_balance, terms) ==
    Min(Mul(beginning_balance, terms.amortization), beginning_balance)

\* lines 220-224
OptionalPaymentAnyTranche(tranche, beginning_balance, mandatory_payment, remaining_cash) ==
    IF remaining_cash > mandatory_payment
    THEN Min(remaining_cash - mandatory_payment, beginning_balance - mandatory_payment)
    ELSE 0

OptionalPaymentGrossCash(tranche, beginning_balance, mandatory_payment, remaining_cash) ==
    IF remaining_cash > mandatory_payment /\ tranche = "Term Loan B"
    THEN Min(remaining_cash, beginning_balance - mandatory_payment)
    ELSE 0

OptionalPayment(tranche, beginning_balance, mandatory_payment, remaining_cash) ==
    IF remaining_cash > mandatory_payment /\ tranche = "Term Loan B"
    THEN Min(remaining_cash - mandatory_payment, beginning_balance - mandatory_payment)
    ELSE 0

\* lines 213-237: the record of one tranche in one year
TrancheYear(tranche, terms, beginning_balance, remaining_cash) ==
    LET mandatory_payment == MandatoryPayment(beginning_balance, terms)
        optional_payment ==
            OptionalPayment(tranche, beginning_balance, mandatory_payment, remaining_cash)
        total_payment == mandatory_payment + optional_payment
        ending_balance == Max(0, beginning_balance - total_payment)
        interest_payment == Mul(beginning_balance, terms.rate)
    IN [beginning_balance |-> beginning_balance,
        mandatory_payment |-> mandatory_payment,
        optional_payment |-> optional_payment,
        total_payment |-> total_payment,
        interest_payment |-> interest_payment,
        ending_balance |-> ending_balance]

\* line 241: the balance a tranche carries into the next year
CarriedBalanceNetOfMandatory(row) == row.beginning_balance - row.mandatory_payment

CarriedBalance(row) == row.ending_balance

\* lines 212-241: the loop over the tranches of one year, from tranche i on;
\* year_schedule holds the records made so far
RECURSIVE TrancheLoop(_, _, _, _, _)
TrancheLoop(structure, debt_balances, remaining_cash, i, year_schedule) ==
    IF i > Len(Tranches)
    THEN [year_schedule |-> year_schedule, debt_balances |-> debt_balances]
    ELSE LET tranche == Tranches[i]
             row == TrancheYear(tranche, structure[tranche],
                                debt_balances[tranche], remaining_cash)
         IN TrancheLoop(structure,
                        [debt_balances EXCEPT ![tranche] = CarriedBalance(row)],
                        remaining_cash - row.total_payment,
                        i + 1,
                        (tranche :> row) @@ year_schedule)

\* lines 207-243: the loop over the years, from the k-th year on
RECURSIVE YearLoop(_, _, _, _, _)
YearLoop(structure, model, debt_balances, k, schedule) ==
    IF k > Len(Years) THEN schedule
    ELSE LET year == Years[k]
             pass == TrancheLoop(structure, debt_balances,
                                 model[year].free_cash_flow, 1, EmptyDict)
         IN YearLoop(structure, model, pass.debt_balances, k + 1,
                     (year :> pass.year_schedule) @@ schedule)

\* lines 199-243
DebtScheduleOf(structure, model) ==
    YearLoop(structure, model,
             [t \in TrancheNames |-> structure[t].amount], 1, EmptyDict)

----------------------------------------------------------------------------
(* exit_analysis *)

\* line 257
DefaultExitMultiples == <<800, 900, 1000, 1100, 1200>>

\* line 259: both upstream results are needed
ExitReadyModelOnly == Truthy(operating_model)

ExitReady == Truthy(operating_model) /\ Truthy(debt_schedule)

\* lines 266-268
RemainingDebt(schedule, exit_year) ==
    SumSeq([i \in 1..Len(Tranches) |-> schedule[exit_year][Tranches[i]].ending_balance])

\* line 283
Moic(equity_value, equity) ==
    IF equity > 0 THEN Quot(equity_value * RScale, equity) ELSE 0

\* line 284: -1 is -RScale in tenths
IrrFiveYears(moic, exit_year) ==
    IF moic > 0 THEN Root(moic, 5) - RScale ELSE -RScale

Irr(moic, exit_year) ==
    IF moic > 0 THEN Root(moic, exit_year) - RScale ELSE -RScale

\* f"{multiple:.1f}x": the multiple rounded to one decimal, as a number of tenths
\* ("10.0x" is 100).  Multiples are in hundredths; the inputs used here avoid the
\* ties (x.x5), which the program rounds by the double's binary expansion.
FormatMultiple(multiple) == (multiple + 5) \div 10

\* lines 279-293: one scenario
ExitScenario(multiple, exit_ebitda, total_remaining_debt, exit_year, equity) ==
    LET enterprise_value == Quot(exit_ebitda * multiple, MScale)
        equity_value == Max(0, enterprise_value - total_remaining_debt)
        moic == Moic(equity_value, equity)
        irr == Irr(moic, exit_year)
    IN [exit_multiple |-> multiple,
        enterprise_value |-> enterprise_value,
        remaining_debt |-> total_remaining_debt,
        equity_value |-> equity_value,
        moic |-> moic,
        irr |-> irr]

\* lines 270-293: the dict the loop builds; a later multiple with the same key
\* replaces an earlier one
ExitResults(exit_multiples, exit_ebitda, total_remaining_debt, exit_year, equity) ==
    LET keys == {FormatMultiple(exit_multiples[i]) : i \in 1..Len(exit_multiples)}
        last(k) == CHOOSE i \in 1..Len(exit_multiples) :
                      /\ FormatMultiple(exit_multiples[i]) = k
                      /\ \A j \in (i + 1)..Len(exit_multiples) :
                            FormatMultiple(exit_multiples[j]) # k
    IN [k \in keys |->
           ExitScenario(exit_multiples[last(k)], exit_ebitda,
                        total_remaining_debt, exit_year, equity)]

----------------------------------------------------------------------------
(* sensitivity_analysis *)

\* line 309: the key '10.0x'
BaseKey == FormatMultiple(1000)

\* the division of line 321 raises when sponsor_equity is 0
DivisionRaises(equity) == equity = 0

\* lines 315-329: one pass of the inner loop body, sponsor_equity # 0
SensitivityCell(rev_adj, ebitda_adj, base_case, model, equity) ==
    LET adjusted_ebitda == Mul(Mul(model[5].ebitda, Scale + rev_adj), Scale + ebitda_adj)
        enterprise_value == adjusted_ebitda * 10
        remaining_debt == base_case.remaining_debt
        equity_value == Max(0, enterprise_value - remaining_debt)
        moic == Quot(equity_value * RScale, equity)
        irr == IF moic > 0 THEN Root(moic, 5) - RScale ELSE -RScale
    IN [revenue_adj |-> rev_adj, ebitda_adj |-> ebitda_adj, irr |-> irr, moic |-> moic]

\* lines 313-329: the inner loop, from the j-th ebitda adjustment on
RECURSIVE EbitdaLoop(_, _, _, _, _, _, _)
EbitdaLoop(rev_adj, ebitda_sensitivity, j, base_case, model, equity, sensitivity_grid) ==
    IF j > Len(ebitda_sensitivity) THEN sensitivity_grid
    ELSE EbitdaLoop(rev_adj, ebitda_sensitivity, j + 1, base_case, model, equity,
                    Append(sensitivity_grid,
                           SensitivityCell(rev_adj, ebitda_sensitivity[j],
                                           base_case, model, equity)))

\* lines 312-329: the outer loop, from the i-th revenue adjustment on
RECURSIVE RevenueLoop(_, _, _, _, _, _, _)
RevenueLoop(revenue_sensitivity, ebitda_sensitivity, i, base_case, model, equity, grid) ==
    IF i > Len(revenue_sensitivity) THEN grid
    ELSE RevenueLoop(revenue_sensitivity, ebitda_sensitivity, i + 1, base_case, model,
                     equity,
                     EbitdaLoop(revenue_sensitivity[i], ebitda_sensitivity, 1,
                                base_case, model, equity, grid))

SensitivityGrid(revenue_sensitivity, ebitda_sensitivity, base_case, model, equity) ==
    RevenueLoop(revenue_sensitivity, ebitda_sensitivity, 1, base_case, model, equity, <<>>)

----------------------------------------------------------------------------
(* The calls the model makes *)

\* at most this many calls in a run
MaxCalls == 5

\* sponsor equity of the deal: none, or 150.00 of a 500.00 purchase
SponsorEquities == {0, 15000}

\* amounts passed to structure_debt: the spec's example, no debt at all, a small
\* Term Loan B that the sweep repays, and a deal without Term Loan A
StructureInputs ==
    {<<10000, 20000, 2500, 2500>>,
     <<0, 0, 0, 0>>,
     <<6000, 1500, 0, 2500>>,
     <<0, 30000, 0, 5000>>}

\* arguments of build_operating_model; the rates default to 0.03, 0.02, 0.25
OperatingInput(base_revenue, revenue_growth, ebitda_margin) ==
    [base_revenue |-> base_revenue, revenue_growth |-> revenue_growth,
     ebitda_margin |-> ebitda_margin,
     capex_rate |-> 300, nwc_rate |-> 200, tax_rate |-> 2500]

OperatingInputs ==
    {OperatingInput(20000, <<800, 700, 600, 500>>, 2500),
     OperatingInput(20000, <<>>, 2500),
     OperatingInput(6000, <<8000>>, 1000),
     OperatingInput(30000, <<-1000, 2000, 0, 300, 900>>, 3000)}

\* arguments of exit_analysis: exit_multiples is <<>> for None, <<list>> for a list
ExitMultipleInputs ==
    {None, <<<<300, 1200>>>>, <<<<>>>>, <<<<1004, 996>>>>}

ExitYearInputs == {1, 3, 5, 6}

\* arguments of sensitivity_analysis: the defaults, and shorter lists
DefaultRevenueSensitivity == <<-1000, 0, 1000>>
DefaultEbitdaSensitivity == <<-200, 0, 200>>

SensitivityInputs ==
    {<<DefaultRevenueSensitivity, DefaultEbitdaSensitivity>>,
     <<<<500, -500>>, <<0>>>>,
     <<<<0>>, <<>>>>}

NoArgs == <<>>

Init ==
    /\ purchase_price = 50000
    /\ sponsor_equity \in SponsorEquities
    /\ total_debt = purchase_price - sponsor_equity
    /\ debt_structure = EmptyDict
    /\ operating_model = EmptyDict
    /\ debt_schedule = EmptyDict
    /\ returns_analysis = EmptyDict
    /\ called = "__init__"
    /\ args = NoArgs
    /\ outcome = "returned"
    /\ result = None
    /\ calls = 0

\* what a method that prints "Error: ..." and returns None ends with
StateError == "Error printed, None returned"

Deal == <<purchase_price, sponsor_equity, total_debt>>

\* lines 56-101
StructureDebt(amounts) ==
    /\ calls < MaxCalls
    /\ calls' = calls + 1
    /\ called' = "structure_debt"
    /\ args' = amounts
    /\ debt_structure' = DebtStructureOf(amounts[1], amounts[2], amounts[3], amounts[4])
    /\ outcome' = "returned"
    /\ result' = <<debt_structure'>>
    /\ UNCHANGED <<Deal, operating_model, debt_schedule, returns_analysis>>

\* build_operating_model with a guard like the later stages have
BuildOperatingModelGuarded(in) ==
    /\ calls < MaxCalls
    /\ calls' = calls + 1
    /\ called' = "build_operating_model"
    /\ args' = in
    /\ IF ~Truthy(debt_structure)
       THEN /\ outcome' = StateError
            /\ result' = None
            /\ UNCHANGED operating_model
       ELSE IF Len(in.revenue_growth) = 0
       THEN /\ outcome' = "IndexError"
            /\ result' = None
            /\ UNCHANGED operating_model
       ELSE /\ operating_model' = OperatingModelOf(in, debt_structure)
            /\ outcome' = "returned"
            /\ result' = <<operating_model'>>
    /\ UNCHANGED <<Deal, debt_structure, debt_schedule, returns_analysis>>

\* lines 103-189: with an empty growth list the second year raises IndexError
\* at line 124, before anything is stored
BuildOperatingModel(in) ==
    /\ calls < MaxCalls
    /\ calls' = calls + 1
    /\ called' = "build_operating_model"
    /\ args' = in
    /\ IF Len(in.revenue_growth) = 0
       THEN /\ outcome' = "IndexError"
            /\ result' = None
            /\ UNCHANGED operating_model
       ELSE /\ operating_model' = OperatingModelOf(in, debt_structure)
            /\ outcome' = "returned"
            /\ result' = <<operating_model'>>
    /\ UNCHANGED <<Deal, debt_structure, debt_schedule, returns_analysis>>

\* line 195
ScheduleReady == Truthy(debt_structure) /\ Truthy(operating_model)

\* lines 191-246
ModelDebtSchedule ==
    /\ calls < MaxCalls
    /\ calls' = calls + 1
    /\ called' = "model_debt_schedule"
    /\ args' = NoArgs
    /\ IF ~ScheduleReady
       THEN /\ outcome' = StateError
            /\ result' = None
            /\ UNCHANGED debt_schedule
       ELSE /\ debt_schedule' = DebtScheduleOf(debt_structure, operating_model)
            /\ outcome' = "returned"
            /\ result' = <<debt_schedule'>>
    /\ UNCHANGED <<Deal, debt_structure, operating_model, returns_analysis>>

\* lines 248-298: a year outside the model raises KeyError at line 263 (or 267)
ExitAnalysis(multiples_arg, exit_year) ==
    LET exit_multiples ==
            IF multiples_arg = None THEN DefaultExitMultiples ELSE multiples_arg[1]
    IN /\ calls < MaxCalls
       /\ calls' = calls + 1
       /\ called' = "exit_analysis"
       /\ args' = [exit_multiples |-> exit_multiples, exit_year |-> exit_year]
       /\ IF ~ExitReady
          THEN /\ outcome' = StateError
               /\ result' = None
               /\ UNCHANGED returns_analysis
          ELSE IF exit_year \notin DOMAIN operating_model
                    \/ exit_year \notin DOMAIN debt_schedule
          THEN /\ outcome' = "KeyError"
               /\ result' = None
               /\ UNCHANGED returns_analysis
          ELSE /\ returns_analysis' =
                      ExitResults(exit_multiples, operating_model[exit_year].ebitda,
                                  RemainingDebt(debt_schedule, exit_year),
                                  exit_year, sponsor_equity)
               /\ outcome' = "returned"
               /\ result' = <<returns_analysis'>>
       /\ UNCHANGED <<Deal, debt_structure, operating_model, debt_schedule>>

\* lines 300-331: nothing stored changes; a missing '10.0x' raises KeyError at
\* line 309, a zero sponsor_equity raises ZeroDivisionError at line 321 in the
\* first cell
SensitivityAnalysis(revenue_sensitivity, ebitda_sensitivity) ==
    /\ calls < MaxCalls
    /\ calls' = calls + 1
    /\ called' = "sensitivity_analysis"
    /\ args' = [revenue_sensitivity |-> revenue_sensitivity,
                ebitda_sensitivity |-> ebitda_sensitivity]
    /\ IF ~Truthy(returns_analysis)
       THEN /\ outcome' = StateError
            /\ result' = None
       ELSE IF BaseKey \notin DOMAIN returns_analysis
       THEN /\ outcome' = "KeyError"
            /\ result' = None
       ELSE IF /\ Len(revenue_sensitivity) > 0
               /\ Len(ebitda_sensitivity) > 0
               /\ DivisionRaises(sponsor_equity)
       THEN /\ outcome' = "ZeroDivisionError"
            /\ result' = None
       ELSE /\ outcome' = "returned"
            /\ result' = <<SensitivityGrid(revenue_sensitivity, ebitda_sensitivity,
                                           returns_analysis[BaseKey], operating_model,
                                           sponsor_equity)>>
    /\ UNCHANGED <<Deal, debt_structure, operating_model, debt_schedule,
                   returns_analysis>>

Next ==
    \/ \E amounts \in StructureInputs : StructureDebt(amounts)
    \/ \E in \in OperatingInputs : BuildOperatingModel(in)
    \/ ModelDebtSchedule
    \/ \E m \in ExitMultipleInputs, y \in ExitYearInputs : ExitAnalysis(m, y)
    \/ \E s \in SensitivityInputs : SensitivityAnalysis(s[1], s[2])

Spec == Init /\ [][Next]_vars

----------------------------------------------------------------------------
(* Properties of the schedule model_debt_schedule returns *)

\* the last call was model_debt_schedule and it returned a schedule, so the
\* stored schedule was computed from the stored structure and operating model
ScheduleJustBuilt == called = "model_debt_schedule" /\ outcome = "returned"

Row(year, tranche) == debt_schedule[year][tranche]

\* C1: for every tranche, ending_balance of year y is beginning_balance of year
\* y+1 for y in 1..4, and beginning_balance of year 1 is the tranche's amount
C1_BalanceContinuity ==
    /\ Truthy(debt_schedule) =>
          \A t \in TrancheNames : \A y \in 1..4 :
              Row(y, t).ending_balance = Row(y + 1, t).beginning_balance
    /\ ScheduleJustBuilt =>
          \A t \in TrancheNames : Row(1, t).beginning_balance = debt_structure[t].amount

\* C1's case: a schedule in which a tranche was paid down by a sweep and by
\* mandatory amortization, so balances move from year to year
C1_Witness ==
    /\ ScheduleJustBuilt
    /\ \E y \in 1..4 :
          /\ Row(y, "Term Loan B").optional_payment > 0
          /\ Row(y, "Term Loan B").ending_balance > 0
          /\ Row(y + 1, "Term Loan B").beginning_balance
                < Row(y, "Term Loan B").beginning_balance
    /\ Row(2, "Term Loan A").beginning_balance < Row(1, "Term Loan A").beginning_balance

\* C2: in every year and for every tranche, ending_balance >= 0 and
\* mandatory_payment <= beginning_balance (the amounts are non-negative)
C2_BalancesBounded ==
    Truthy(debt_schedule) =>
        \A y \in YearSet : \A t \in TrancheNames :
            /\ Row(y, t).ending_balance >= 0
            /\ Row(y, t).mandatory_payment <= Row(y, t).beginning_balance

\* C2's case: a year with negative free cash flow, and a tranche repaid in full
\* that stays in the schedule with a zero balance
C2_Witness ==
    /\ ScheduleJustBuilt
    /\ \A t \in TrancheNames : debt_structure[t].amount >= 0
    /\ \E y \in YearSet : operating_model[y].free_cash_flow < 0
    /\ \E y \in YearSet :
          /\ Row(y, "Term Loan B").beginning_balance > 0
          /\ Row(y, "Term Loan B").ending_balance = 0

RECURSIVE PoolAt(_, _)
PoolAt(year, i) ==
    IF i = 1 THEN operating_model[year].free_cash_flow
    ELSE PoolAt(year, i - 1) - Row(year, Tranches[i - 1]).total_payment

\* C4 as stated: Term Loan B's optional_payment is non-negative, at most
\* beginning_balance - mandatory_payment and at most the pool left when Term
\* Loan B is reached, and after a sweep the pool is still non-negative
C4_SweepWithinPool ==
    ScheduleJustBuilt =>
        \A y \in YearSet :
            LET row == Row(y, "Term Loan B")
                pool == PoolAt(y, 2)
            IN /\ row.optional_payment >= 0
               /\ row.optional_payment <= row.beginning_balance - row.mandatory_payment
               /\ row.optional_payment <= pool
               /\ row.optional_payment > 0 => pool - row.total_payment >= 0

\* C4 amended: the sweep is non-negative and at most beginning_balance -
\* mandatory_payment; when the pool at Term Loan B exceeds its mandatory payment
\* the sweep is the smaller of pool - mandatory_payment and beginning_balance -
\* mandatory_payment, so the pool stays non-negative; otherwise the sweep is 0,
\* also when the pool is negative
C4_SweepWithinPoolNetOfMandatory ==
    ScheduleJustBuilt =>
        \A y \in YearSet :
            LET row == Row(y, "Term Loan B")
                pool == PoolAt(y, 2)
            IN /\ row.optional_payment >= 0
               /\ row.optional_payment <= row.beginning_balance - row.mandatory_payment
               /\ pool > row.mandatory_payment =>
                     /\ row.optional_payment <= pool - row.mandatory_payment
                     /\ \/ row.optional_payment = pool - row.mandatory_payment
                        \/ row.optional_payment
                              = row.beginning_balance - row.mandatory_payment
                     /\ pool - row.total_payment >= 0
               /\ pool <= row.mandatory_payment => row.optional_payment = 0

\* C4's case: Term Loan A took part of the pool, and Term Loan B was swept with
\* all the cash that was left, less than its balance
C4_Witness ==
    /\ ScheduleJustBuilt
    /\ \E y \in YearSet :
          /\ Row(y, "Term Loan A").total_payment > 0
          /\ Row(y, "Term Loan B").optional_payment > 0
          /\ Row(y, "Term Loan B").mandatory_payment > 0
          /\ Row(y, "Term Loan B").ending_balance > 0
          /\ PoolAt(y, 2) - Row(y, "Term Loan B").total_payment = 0

----------------------------------------------------------------------------
(* Properties of exit_analysis and sensitivity_analysis *)

ExitJustRun == called = "exit_analysis" /\ outcome = "returned"

\* C5: for every scenario of an exit_analysis at exit year 1..5, remaining_debt
\* is the sum of the tranches' ending balances at the exit year, equity_value is
\* max(0, exit_ebitda x multiple - remaining_debt) and never negative, irr is -1
\* when moic is 0 and moic^(1/exit_year) - 1 when moic > 0
C5_ExitScenarios ==
    (ExitJustRun /\ args.exit_year \in 1..5) =>
        \A k \in DOMAIN returns_analysis :
            LET s == returns_analysis[k]
                y == args.exit_year
                r == s.irr + RScale
                product == operating_model[y].ebitda * s.exit_multiple
            IN /\ s.remaining_debt
                    = Row(y, "Term Loan A").ending_balance
                      + Row(y, "Term Loan B").ending_balance
                      + Row(y, "Revolver").ending_balance
                      + Row(y, "Subordinated Debt").ending_balance
               /\ s.enterprise_value * MScale <= product
               /\ product < (s.enterprise_value + 1) * MScale
               /\ s.equity_value >= 0
               /\ s.equity_value
                    = (IF s.enterprise_value > s.remaining_debt
                       THEN s.enterprise_value - s.remaining_debt ELSE 0)
               /\ s.moic >= 0
               /\ s.moic = 0 => s.irr = -RScale
               /\ s.moic > 0 =>
                     /\ Pow(r, y) <= s.moic * Pow(RScale, y - 1)
                     /\ Pow(r + 1, y) > s.moic * Pow(RScale, y - 1)

\* C5's case: an exit at year 3 of a deal with sponsor equity, with debt left,
\* where one multiple wipes the equity out (moic 0) and another returns a gain
C5_Witness ==
    /\ ExitJustRun
    /\ args.exit_year = 3
    /\ sponsor_equity > 0
    /\ \E k \in DOMAIN returns_analysis :
          /\ returns_analysis[k].moic = 0
          /\ returns_analysis[k].enterprise_value > 0
          /\ returns_analysis[k].remaining_debt > 0
    /\ \E k \in DOMAIN returns_analysis :
          /\ returns_analysis[k].moic > RScale
          /\ returns_analysis[k].irr > 0

SensitivityJustCalled == called = "sensitivity_analysis"

\* C6: sensitivity_analysis called while the '10.0x' scenario does not exist
\* ends with the error outcome and returns no grid
C6_SensitivityNeedsBaseScenario ==
    (SensitivityJustCalled /\ BaseKey \notin DOMAIN returns_analysis) =>
        /\ outcome = StateError
        /\ result = None

\* C7: with sponsor_equity 0 no returns computation raises a division by zero:
\* exit_analysis and sensitivity_analysis put moic 0 and irr -1 instead
C7_ZeroEquityIsGuarded ==
    sponsor_equity = 0 =>
        /\ outcome # "ZeroDivisionError"
        /\ ExitJustRun =>
              \A k \in DOMAIN returns_analysis :
                  returns_analysis[k].moic = 0 /\ returns_analysis[k].irr = -RScale
        /\ (SensitivityJustCalled /\ outcome = "returned") =>
              \A n \in DOMAIN result[1] :
                  result[1][n].moic = 0 /\ result[1][n].irr = -RScale

BuildJustCalled == called = "build_operating_model"

Stored == <<debt_structure, operating_model, debt_schedule, returns_analysis>>

\* C9: a call of model_debt_schedule while the debt structure or the operating
\* model is absent, and a call of exit_analysis while the operating model or the
\* debt schedule is absent, ends with the error outcome, returns None and leaves
\* the four stored results as they were
C9_EarlyCallsChangeNothing ==
    [][/\ (/\ called' = "model_debt_schedule"
           /\ ~Truthy(debt_structure) \/ ~Truthy(operating_model))
          => (outcome' = StateError /\ result' = None /\ UNCHANGED Stored)
       /\ (/\ called' = "exit_analysis"
           /\ ~Truthy(operating_model) \/ ~Truthy(debt_schedule))
          => (outcome' = StateError /\ result' = None /\ UNCHANGED Stored)]_vars

\* C9's case: exit_analysis was called with an operating model and a debt
\* structure but no debt schedule, after model_debt_schedule had itself been
\* refused: the error outcome, and still no schedule and no returns
C9_Witness ==
    /\ called = "exit_analysis"
    /\ outcome = StateError
    /\ Truthy(operating_model)
    /\ Truthy(debt_structure)
    /\ ~Truthy(debt_schedule)
    /\ ~Truthy(returns_analysis)
    /\ calls >= 4

\* C10: sensitivity_analysis over R and E, with the '10.0x' scenario stored,
\* returns |R| x |E| records, the record of R[i] and E[j] at place
\* (i-1)|E| + j, each computed with the stored scenario's remaining_debt
C10_GridIsTheProduct ==
    (SensitivityJustCalled /\ BaseKey \in DOMAIN returns_analysis) =>
        LET R == args.revenue_sensitivity
            E == args.ebitda_sensitivity
        IN /\ outcome = "returned"
           /\ Len(result[1]) = Len(R) * Len(E)
           /\ \A i \in 1..Len(R) : \A j \in 1..Len(E) :
                 LET cell == result[1][(i - 1) * Len(E) + j]
                     adjusted == Mul(Mul(operating_model[5].ebitda, Scale + R[i]),
                                     Scale + E[j])
                     equity_value ==
                         Max(0, adjusted * 10 - returns_analysis[BaseKey].remaining_debt)
                 IN /\ cell.revenue_adj = R[i]
                    /\ cell.ebitda_adj = E[j]
                    /\ cell.moic * sponsor_equity <= equity_value * RScale
                    /\ (cell.moic + 1) * sponsor_equity > equity_value * RScale

----------------------------------------------------------------------------
(* Properties of build_operating_model *)

\* C11: build_operating_model, given a non-empty growth list, produces exactly
\* the 5 yearly records; year-1 revenue is base_revenue; for N in 2..5,
\* revenue(N) is revenue(N-1) x (1 + g), rounded to the money unit, where g is
\* the (N-1)-th element of the list if there is one and its last element
\* otherwise; year-1 nwc_change is 0
C11_RevenueChain ==
    (BuildJustCalled /\ Len(args.revenue_growth) > 0) =>
        LET growth == args.revenue_growth
            revenue(N) == operating_model[N].revenue
            g(N) == IF N - 1 <= Len(growth) THEN growth[N - 1] ELSE growth[Len(growth)]
        IN /\ outcome = "returned"
           /\ result = <<operating_model>>
           /\ DOMAIN operating_model = 1..5
           /\ revenue(1) = args.base_revenue
           /\ \A N \in 2..5 :
                 /\ revenue(N) * Scale <= revenue(N - 1) * (Scale + g(N))
                 /\ revenue(N - 1) * (Scale + g(N)) < (revenue(N) + 1) * Scale
           /\ operating_model[1].nwc_change = 0

\* C11's case: a one-element growth list, used for year 2 and reused for years
\* 3 to 5, with revenue growing every year and a working-capital change from
\* year 2 on but none in year 1
C11_Witness ==
    /\ BuildJustCalled
    /\ outcome = "returned"
    /\ Len(args.revenue_growth) = 1
    /\ args.revenue_growth[1] > 0
    /\ \A N \in 2..5 :
          /\ operating_model[N].revenue > operating_model[N - 1].revenue
          /\ operating_model[N].nwc_change > 0
    /\ operating_model[1].nwc_change = 0

====
